---- MODULE Spec2Model ----
(* Model of functions.py: the aggregation helpers over the Nobel laureate  *)
(* table.  A table is a set of column names and a sequence of rows; every  *)
(* function of the module is one action that records its outcome (return   *)
(* value, data handed to the renderer, or the raised error) and whatever   *)
(* it leaves behind in the caller's table.                                 *)
EXTENDS Integers, Sequences, FiniteSets, TLC

VARIABLES table, table0, call, out, sortTies

vars == <<table, table0, call, out, sortTies>>

(***************************************************************************)
(* Bounds of the model.                                                    *)
(***************************************************************************)
MaxRows == 2
MaxRowsFemale == 3
MaxRowsUs == 3
MaxRowsTop == 5
MaxRowsRepeat == 6
MaxTopN == 2

(***************************************************************************)
(* Cell values.  A pandas cell is NaN/None, an integer, a string or a      *)
(* boolean; one record shape holds all four so that cells compare.         *)
(***************************************************************************)
Null == [k |-> "null", n |-> 0, s |-> ""]
I(x) == [k |-> "int", n |-> x, s |-> ""]
S(x) == [k |-> "str", n |-> 0, s |-> x]
B(b) == [k |-> "bool", n |-> IF b THEN 1 ELSE 0, s |-> ""]

IsNull(v) == v.k = "null"

(* The strings used as group keys, in Python's str order (code points).    *)
StrOrder == <<"Chemistry", "Female", "Male", "Marie Curie", "Physics", "X", "Y">>

Rank(s) == CHOOSE i \in 1..Len(StrOrder) : StrOrder[i] = s

(* The integer a cell sorts by among the cells of its column.              *)
KeyOf(v) == IF v.k = "str" THEN Rank(v.s) ELSE v.n

(* str(int)                                                                *)
DigitChars == <<"0", "1", "2", "3", "4", "5", "6", "7", "8", "9">>

RECURSIVE IntToStr(_)
IntToStr(n) ==
  IF n < 10 THEN DigitChars[n + 1]
  ELSE IntToStr(n \div 10) \o DigitChars[(n % 10) + 1]

(***************************************************************************)
(* Sequence helpers.                                                       *)
(***************************************************************************)
SeqUpTo(set, n) == UNION {[1..m -> set] : m \in 0..n}

Reverse(s) == [i \in 1..Len(s) |-> s[Len(s) + 1 - i]]

Range(s) == {s[i] : i \in 1..Len(s)}

Head0(s, n) == IF Len(s) <= n THEN s ELSE SubSeq(s, 1, n)

(* Keys are tuples of integers, compared lexicographically.                 *)
LexLess(a, b) ==
  \E i \in 1..Len(a) : a[i] < b[i] /\ \A j \in 1..(i - 1) : a[j] = b[j]

(* Insert index i into the sorted index list idx behind every index whose  *)
(* key is not after keys[i]: the step of a stable insertion sort.          *)
RECURSIVE InsertIdx(_, _, _)
InsertIdx(i, idx, keys) ==
  IF idx = <<>> THEN <<i>>
  ELSE IF LexLess(keys[i], keys[Head(idx)]) THEN <<i>> \o idx
  ELSE <<Head(idx)>> \o InsertIdx(i, Tail(idx), keys)

(* numpy argsort with a stable kind: the positions of keys in key order,   *)
(* equal keys in input order.                                              *)
RECURSIVE ArgsortUpTo(_, _)
ArgsortUpTo(keys, n) ==
  IF n = 0 THEN <<>> ELSE InsertIdx(n, ArgsortUpTo(keys, n - 1), keys)

Argsort(keys) == ArgsortUpTo(keys, Len(keys))

Take(s, idx) == [j \in 1..Len(idx) |-> s[idx[j]]]

(* sort_values(kind='quicksort'): sorted by the key, the order of equal    *)
(* keys is whatever the build's quicksort leaves ("keep": input order,     *)
(* "reverse": reversed input order); one build always does the same.       *)
SortValues(s, keys, ties) ==
  IF ties = "keep" THEN Take(s, Argsort(keys))
  ELSE Take(Reverse(s), Argsort(Reverse(keys)))

(* The distinct elements of s in order of first appearance.                *)
RECURSIVE Unique(_)
Unique(s) ==
  IF s = <<>> THEN <<>>
  ELSE LET u == Unique(SubSeq(s, 1, Len(s) - 1))
       IN IF s[Len(s)] \in Range(u) THEN u ELSE Append(u, s[Len(s)])

Count(s, P(_)) == Cardinality({i \in 1..Len(s) : P(s[i])})

RECURSIVE GCD(_, _)
GCD(a, b) == IF b = 0 THEN a ELSE GCD(b, a % b)

(* A float quotient of two small counts, kept as the reduced fraction;     *)
(* <<1, 0>> is inf and <<0, 0>> is NaN.                                    *)
Quotient(a, b) ==
  LET g == GCD(a, b) IN IF g = 0 THEN <<0, 0>> ELSE <<a \div g, b \div g>>

FracLess(p, q) == p[1] * q[2] < q[1] * p[2]

(***************************************************************************)
(* Tables and the outcome of a call.                                       *)
(***************************************************************************)
AllCols == {"year", "sex", "category", "full_name", "birth_country", "laureate_id"}

NoCall == [op |-> "", column |-> "", top_n |-> 0, highlight |-> ""]

Called(op, column, top_n, highlight) ==
  [op |-> op, column |-> column, top_n |-> top_n, highlight |-> highlight]

NoOut == [kind |-> "none", err |-> "", ret |-> <<>>, plot |-> <<>>]

(* A call that returned ret and handed plot to the renderer.               *)
Ok(ret, plot) == [kind |-> "ok", err |-> "", ret |-> ret, plot |-> plot]

(* A call that raised.                                                     *)
Err(e) == [kind |-> "error", err |-> e, ret |-> <<>>, plot |-> <<>>]

(* dropna left out: every row is kept.                                     *)
DropNaKeepingAll(rows, col) == rows

(* df.dropna(subset=[col])                                                 *)
DropNa(rows, col) == SelectSeq(rows, LAMBDA r : ~IsNull(r[col]))

(* df[col] = F(row): the column is added, or overwritten when present.     *)
Assign(t, col, F(_)) ==
  [cols |-> t.cols \cup {col},
   rows |-> [i \in 1..Len(t.rows) |->
               [c \in t.cols \cup {col} |->
                  IF c = col THEN F(t.rows[i]) ELSE t.rows[i][c]]]]

(* (year // 10) * 10                                                       *)
Decade(v) == IF IsNull(v) THEN Null ELSE I((v.n \div 10) * 10)

(* The dtype pandas gives a column: integers with a missing value are      *)
(* stored as floats.                                                       *)
ColumnDtype(rows, col) ==
  LET ks == {rows[i][col].k : i \in 1..Len(rows)}
  IN IF ks = {"int"} THEN "int64"
     ELSE IF ks = {"bool"} THEN "bool"
     ELSE IF ks \subseteq {"int", "null"} THEN "float64"
     ELSE "object"

(* astype(str) of one cell of a column of the given dtype.                 *)
AsStr(v, dtype) ==
  IF v.k = "str" THEN v.s
  ELSE IF v.k = "bool" THEN (IF v.n = 1 THEN "True" ELSE "False")
  ELSE IF dtype = "float64" THEN IntToStr(v.n) \o ".0"
  ELSE IntToStr(v.n)

(* Series.value_counts().reset_index(): one (value, count) row per         *)
(* distinct value, most frequent first.                                    *)
ValueCounts(s, ties) ==
  LET u == Unique(s)
      counts == [i \in 1..Len(u) |->
                   [value |-> u[i], count |-> Count(s, LAMBDA x : x = u[i])]]
  IN SortValues(counts, [i \in 1..Len(counts) |-> <<0 - counts[i].count>>], ties)

(* The key tuple of a row under groupby(keycols).                          *)
KeyTuple(r, keycols) == [j \in 1..Len(keycols) |-> r[keycols[j]]]

HasKey(r, keycols) == \A j \in 1..Len(keycols) : ~IsNull(r[keycols[j]])

(* groupby(keycols): the distinct key tuples in sorted order; rows with a  *)
(* missing key are in no group.                                            *)
GroupKeys(rows, keycols) ==
  LET keyed == SelectSeq(rows, LAMBDA r : HasKey(r, keycols))
      ks == Unique([i \in 1..Len(keyed) |-> KeyTuple(keyed[i], keycols)])
  IN SortValues(ks,
                [i \in 1..Len(ks) |-> [j \in 1..Len(keycols) |-> KeyOf(ks[i][j])]],
                "keep")

GroupRows(rows, keycols, key) ==
  SelectSeq(rows, LAMBDA r : KeyTuple(r, keycols) = key)

(***************************************************************************)
(* get_max_value_and_plot                                                  *)
(***************************************************************************)
(* Only the first row of the counts is reported.                           *)
MostCommonFirstOnly(counts) ==
  IF counts = <<>> THEN <<>> ELSE <<counts[1].value>>

(* counts[counts['count'] == counts['count'].max()][column].tolist()       *)
MostCommonValues(counts) ==
  LET hit == SelectSeq(counts,
                       LAMBDA c : \A i \in 1..Len(counts) : counts[i].count <= c.count)
  IN [i \in 1..Len(hit) |-> hit[i].value]

GetMaxValueAndPlotOut(t, column_name, top_n, ties) ==
  IF column_name \notin t.cols THEN Err("ValueError: column does not exist")
  ELSE LET df == DropNa(t.rows, column_name)
           dtype == ColumnDtype(t.rows, column_name)
           strs == [i \in 1..Len(df) |-> AsStr(df[i][column_name], dtype)]
           counts == ValueCounts(strs, ties)
           top_values == Head0(counts, top_n)
       IN Ok(MostCommonValues(counts), top_values)

(***************************************************************************)
(* get_max_female_decade_category                                          *)
(***************************************************************************)
(* The copy the function works on: rows with a sex, plus the derived       *)
(* decade and female_winner columns.                                       *)
FemaleWinnerFrame(t) ==
  LET d0 == [cols |-> t.cols, rows |-> DropNa(t.rows, "sex")]
      d1 == Assign(d0, "decade", LAMBDA r : Decade(r["year"]))
  IN Assign(d1, "female_winner", LAMBDA r : B(r["sex"] = S("Female")))

(* groupby(['decade', 'category'])['female_winner'].mean()                 *)
PropFemaleWinners(rows) ==
  LET ks == GroupKeys(rows, <<"decade", "category">>)
  IN [i \in 1..Len(ks) |->
        LET g == GroupRows(rows, <<"decade", "category">>, ks[i])
        IN [decade |-> ks[i][1], category |-> ks[i][2],
            female_winner |->
              Quotient(Count(g, LAMBDA r : r["female_winner"] = B(TRUE)), Len(g))]]

(* The rows at the maximum proportion, sorted with the oldest decade first. *)
MaxFemaleRowsOldestFirst(prop, ties) ==
  LET top == SelectSeq(prop,
               LAMBDA p : \A i \in 1..Len(prop) :
                            ~FracLess(p.female_winner, prop[i].female_winner))
  IN SortValues(top, [i \in 1..Len(top) |-> <<top[i].decade.n>>], ties)

(* The rows at the maximum proportion, most recent decade first.           *)
MaxFemaleRows(prop, ties) ==
  LET top == SelectSeq(prop,
               LAMBDA p : \A i \in 1..Len(prop) :
                            ~FracLess(p.female_winner, prop[i].female_winner))
  IN SortValues(top, [i \in 1..Len(top) |-> <<0 - top[i].decade.n>>], ties)

GetMaxFemaleDecadeCategoryOut(t, ties) ==
  IF ~({"sex", "year", "category"} \subseteq t.cols) THEN Err("KeyError")
  ELSE LET best == MaxFemaleRows(PropFemaleWinners(FemaleWinnerFrame(t).rows), ties)
       IN IF best = <<>> THEN Err("IndexError")
          ELSE Ok(<<[decade |-> best[1].decade.n, category |-> best[1].category]>>, <<>>)

(***************************************************************************)
(* plot_gender_over_decades                                                *)
(***************************************************************************)
(* groupby(['decade', 'sex']).size().reset_index(name='count')             *)
SexDecadeGrouped(rows) ==
  LET ks == GroupKeys(rows, <<"decade", "sex">>)
  IN [i \in 1..Len(ks) |->
        [decade |-> ks[i][1].n, sex |-> ks[i][2],
         count |-> Len(GroupRows(rows, <<"decade", "sex">>, ks[i]))]]

PlotGenderOverDecadesOut(t) ==
  IF ~({"sex", "year"} \subseteq t.cols) THEN Err("KeyError")
  ELSE LET d0 == [cols |-> t.cols, rows |-> DropNa(t.rows, "sex")]
           df == Assign(d0, "decade", LAMBDA r : Decade(r["year"]))
       IN Ok(<<>>, SexDecadeGrouped(df.rows))

(***************************************************************************)
(* calculate_us_ratio_by_decade                                            *)
(***************************************************************************)
UsRequired == {"year", "birth_country", "laureate_id"}

(* The flag is also written over birth_country itself.                    *)
UsAssignRecodingBirthCountry(t) ==
  LET d1 == Assign(t, "decade", LAMBDA r : Decade(r["year"]))
      d2 == Assign(d1, "is_us_born",
                   LAMBDA r : B(r["birth_country"] = S("United States of America")))
  IN Assign(d2, "birth_country", LAMBDA r : r["is_us_born"])

(* The two column assignments, made on the table the caller passed.        *)
UsAssign(t) ==
  LET d1 == Assign(t, "decade", LAMBDA r : Decade(r["year"]))
  IN Assign(d1, "is_us_born",
            LAMBDA r : B(r["birth_country"] = S("United States of America")))

(* total_winners counted with count instead of nunique.                   *)
NobelGroupedCountingRows(rows) ==
  LET ks == GroupKeys(rows, <<"decade">>)
  IN [i \in 1..Len(ks) |->
        LET g == GroupRows(rows, <<"decade">>, ks[i])
            us == Count(g, LAMBDA r : r["is_us_born"] = B(TRUE))
        IN [decade |-> ks[i][1].n, total_winners |-> Len(g), us_winners |-> us,
            us_ratio |-> Quotient(us, Len(g))]]

(* groupby('decade').agg(nunique, sum) and the ratio column.               *)
NobelGrouped(rows) ==
  LET ks == GroupKeys(rows, <<"decade">>)
  IN [i \in 1..Len(ks) |->
        LET g == GroupRows(rows, <<"decade">>, ks[i])
            total == Cardinality({g[j]["laureate_id"] : j \in 1..Len(g)} \ {Null})
            us == Count(g, LAMBDA r : r["is_us_born"] = B(TRUE))
        IN [decade |-> ks[i][1].n, total_winners |-> total, us_winners |-> us,
            us_ratio |-> Quotient(us, total)]]

CalculateUsRatioByDecadeOut(t) ==
  IF ~(UsRequired \subseteq t.cols)
  THEN Err("ValueError: DataFrame must contain the following columns")
  ELSE Ok(NobelGrouped(UsAssign(t).rows), <<>>)

(* The columns are assigned before laureate_id is looked for.             *)
CalculateUsRatioByDecadeTableLateCheck(t) ==
  IF {"year", "birth_country"} \subseteq t.cols
  THEN Assign(Assign(t, "decade", LAMBDA r : Decade(r["year"])), "is_us_born",
              LAMBDA r : B(r["birth_country"] = S("United States of America")))
  ELSE t

(* What the call leaves in the caller's table.                             *)
CalculateUsRatioByDecadeTable(t) ==
  IF ~(UsRequired \subseteq t.cols) THEN t ELSE UsAssign(t)

(***************************************************************************)
(* get_first_female_laureate                                               *)
(***************************************************************************)
FemaleLaureates(t) ==
  SelectSeq(DropNa(t.rows, "sex"), LAMBDA r : r["sex"] = S("Female"))

(* female_laureates.sort_values(by='year')                                 *)
SortByYear(rows, ties) ==
  SortValues(rows, [i \in 1..Len(rows) |-> <<rows[i]["year"].n>>], ties)

GetFirstFemaleLaureateOut(t, ties) ==
  IF ~({"sex", "year", "full_name", "category"} \subseteq t.cols)
  THEN Err("ValueError: DataFrame must contain the following columns")
  ELSE LET female_laureates == FemaleLaureates(t)
       IN IF female_laureates = <<>>
          THEN Err("ValueError: No female laureates found in the dataset.")
          ELSE LET first_woman == SortByYear(female_laureates, ties)[1]
               IN Ok(<<[full_name |-> first_woman["full_name"],
                        category |-> first_woman["category"],
                        year |-> first_woman["year"].n]>>, <<>>)

(***************************************************************************)
(* plot_categories_of_female_laureates                                     *)
(***************************************************************************)
CategoryCounts(rows, first_woman_category, ties) ==
  LET cats == DropNa(rows, "category")
      vc == ValueCounts([i \in 1..Len(cats) |-> cats[i]["category"]], ties)
  IN [i \in 1..Len(vc) |->
        [category |-> vc[i].value, count |-> vc[i].count,
         highlight |-> IF vc[i].value = S(first_woman_category)
                       THEN "First Female Laureate's Category"
                       ELSE "Other Categories"]]

PlotCategoriesOfFemaleLaureatesOut(t, first_woman_category, ties) ==
  IF ~({"sex", "category"} \subseteq t.cols)
  THEN Err("ValueError: DataFrame must contain the following columns")
  ELSE Ok(<<>>, CategoryCounts(FemaleLaureates(t), first_woman_category, ties))

(***************************************************************************)
(* get_repeat_winners                                                      *)
(***************************************************************************)
(* groupby('full_name').size().reset_index(name='prize_count')             *)
PrizeCounts(rows) ==
  LET ks == GroupKeys(rows, <<"full_name">>)
  IN [i \in 1..Len(ks) |->
        [full_name |-> ks[i][1],
         prize_count |-> Len(GroupRows(rows, <<"full_name">>, ks[i]))]]

(* The filter written as prize_count >= 1.                                *)
RepeatWinnersFromOne(counts, ties) ==
  LET rep == SelectSeq(counts, LAMBDA c : c.prize_count >= 1)
  IN SortValues(rep, [i \in 1..Len(rep) |-> <<0 - rep[i].prize_count>>], ties)

(* The filter prize_count > 1 and sort_values(ascending=False).            *)
RepeatWinners(counts, ties) ==
  LET rep == SelectSeq(counts, LAMBDA c : c.prize_count > 1)
  IN SortValues(rep, [i \in 1..Len(rep) |-> <<0 - rep[i].prize_count>>], ties)

GetRepeatWinnersOut(t, ties) ==
  IF "full_name" \notin t.cols
  THEN Err("ValueError: DataFrame must contain 'full_name' column.")
  ELSE Ok(RepeatWinners(PrizeCounts(DropNa(t.rows, "full_name")), ties), <<>>)

(***************************************************************************)
(* The outcome of the call c on the table t.                               *)
(***************************************************************************)
OutcomeOf(c, t, ties) ==
  CASE c.op = "get_max_value_and_plot" ->
         GetMaxValueAndPlotOut(t, c.column, c.top_n, ties)
    [] c.op = "get_max_female_decade_category" -> GetMaxFemaleDecadeCategoryOut(t, ties)
    [] c.op = "plot_gender_over_decades" -> PlotGenderOverDecadesOut(t)
    [] c.op = "calculate_us_ratio_by_decade" -> CalculateUsRatioByDecadeOut(t)
    [] c.op = "get_first_female_laureate" -> GetFirstFemaleLaureateOut(t, ties)
    [] c.op = "plot_categories_of_female_laureates" ->
         PlotCategoriesOfFemaleLaureatesOut(t, c.highlight, ties)
    [] c.op = "get_repeat_winners" -> GetRepeatWinnersOut(t, ties)
    [] OTHER -> NoOut

(***************************************************************************)
(* The tables the functions are called on.                                 *)
(***************************************************************************)
Years == {1903, 1909, 1911}
Sexes == {S("Female"), S("Male"), Null}
Categories == {S("Chemistry"), S("Physics")}
Countries == {S("United States of America"), S("France"), Null}

Row(year, sex, category, full_name, birth_country, laureate_id) ==
  [year |-> I(year), sex |-> sex, category |-> category, full_name |-> full_name,
   birth_country |-> birth_country, laureate_id |-> laureate_id]

(* Rows for the calls in sequence: a person with a name and a birth        *)
(* country, or a laureate with neither, of either decade and any sex.      *)
GeneralRows ==
  {Row(y, sx, S("Physics"), who[1], who[2], who[3]) :
     y \in {1909, 1911}, sx \in Sexes,
     who \in {<<S("X"), S("United States of America"), I(1)>>, <<Null, Null, I(2)>>}}

FemaleRows ==
  {Row(y, sx, c, S("X"), S("France"), I(1)) : y \in Years, sx \in Sexes, c \in Categories}

UsRows ==
  {Row(y, S("Male"), S("Physics"), S("X"), bc, I(id)) :
     y \in Years, bc \in Countries, id \in {1, 2}}

TopRows ==
  {Row(1903, S("Male"), S("Physics"), S("X"), S("France"), id) :
     id \in {I(1), S("1"), S("2"), S("3"), Null}}

RepeatRows ==
  {Row(1903, S("Male"), S("Physics"), nm, S("France"), I(1)) :
     nm \in {S("Marie Curie"), S("X"), S("Y"), Null}}

(* A DataFrame with the given columns of the given rows.                   *)
MakeTable(cols, rows) ==
  [cols |-> cols, rows |-> [i \in 1..Len(rows) |-> [c \in cols |-> rows[i][c]]]]

(* The column_name arguments tried: a column with values of mixed type, a  *)
(* column with nulls, and one that is there only once it has been added.   *)
TopColumns == {"laureate_id", "decade"}

GeneralColumns == {"sex", "decade"}

InitWith(tables) ==
  /\ table \in tables
  /\ table0 = table
  /\ call = NoCall
  /\ out = NoOut
  /\ sortTies \in {"keep", "reverse"}

(* Every column present, or one column missing from a short table.         *)
Init ==
  InitWith({MakeTable(AllCols, rows) : rows \in SeqUpTo(GeneralRows, MaxRows)}
           \cup {MakeTable(AllCols \ {c}, rows) :
                   c \in AllCols, rows \in SeqUpTo(GeneralRows, 1)})

InitTop == InitWith({MakeTable(AllCols, rows) : rows \in SeqUpTo(TopRows, MaxRowsTop)})

InitFemale ==
  InitWith({MakeTable(AllCols, rows) : rows \in SeqUpTo(FemaleRows, MaxRowsFemale)})

InitUs == InitWith({MakeTable(AllCols, rows) : rows \in SeqUpTo(UsRows, MaxRowsUs)})

InitRepeat ==
  InitWith({MakeTable(AllCols, rows) : rows \in SeqUpTo(RepeatRows, MaxRowsRepeat)})

(***************************************************************************)
(* One action per function called on the caller's table.                   *)
(***************************************************************************)
GetMaxValueAndPlot(column_name, top_n) ==
  /\ call' = Called("get_max_value_and_plot", column_name, top_n, "")
  /\ out' = GetMaxValueAndPlotOut(table, column_name, top_n, sortTies)
  /\ UNCHANGED <<table, table0, sortTies>>

GetMaxFemaleDecadeCategory ==
  /\ call' = Called("get_max_female_decade_category", "", 0, "")
  /\ out' = GetMaxFemaleDecadeCategoryOut(table, sortTies)
  /\ UNCHANGED <<table, table0, sortTies>>

PlotGenderOverDecades ==
  /\ call' = Called("plot_gender_over_decades", "", 0, "")
  /\ out' = PlotGenderOverDecadesOut(table)
  /\ UNCHANGED <<table, table0, sortTies>>

CalculateUsRatioByDecade ==
  /\ call' = Called("calculate_us_ratio_by_decade", "", 0, "")
  /\ out' = CalculateUsRatioByDecadeOut(table)
  /\ table' = CalculateUsRatioByDecadeTable(table)
  /\ UNCHANGED <<table0, sortTies>>

GetFirstFemaleLaureate ==
  /\ call' = Called("get_first_female_laureate", "", 0, "")
  /\ out' = GetFirstFemaleLaureateOut(table, sortTies)
  /\ UNCHANGED <<table, table0, sortTies>>

PlotCategoriesOfFemaleLaureates(first_woman_category) ==
  /\ call' = Called("plot_categories_of_female_laureates", "", 0, first_woman_category)
  /\ out' = PlotCategoriesOfFemaleLaureatesOut(table, first_woman_category, sortTies)
  /\ UNCHANGED <<table, table0, sortTies>>

GetRepeatWinners ==
  /\ call' = Called("get_repeat_winners", "", 0, "")
  /\ out' = GetRepeatWinnersOut(table, sortTies)
  /\ UNCHANGED <<table, table0, sortTies>>

Next ==
  \/ \E column_name \in GeneralColumns, top_n \in 1..MaxTopN :
       GetMaxValueAndPlot(column_name, top_n)
  \/ GetMaxFemaleDecadeCategory
  \/ PlotGenderOverDecades
  \/ CalculateUsRatioByDecade
  \/ GetFirstFemaleLaureate
  \/ \E c \in Categories : PlotCategoriesOfFemaleLaureates(c.s)
  \/ GetRepeatWinners

Spec == Init /\ [][Next]_vars

NextTop ==
  \E column_name \in TopColumns, top_n \in 1..MaxTopN :
    GetMaxValueAndPlot(column_name, top_n)

SpecTop == InitTop /\ [][NextTop]_vars

NextFemale == GetMaxFemaleDecadeCategory \/ GetFirstFemaleLaureate

SpecFemale == InitFemale /\ [][NextFemale]_vars

NextUs == CalculateUsRatioByDecade

SpecUs == InitUs /\ [][NextUs]_vars

NextRepeat == GetRepeatWinners

SpecRepeat == InitRepeat /\ [][NextRepeat]_vars

(***************************************************************************)
(* Properties.  The expected results are written over the row indices of   *)
(* the table, without the grouping and sorting operators above.            *)
(***************************************************************************)
RowIdx(t) == 1..Len(t.rows)

DecadeOfYear(y) == y - (y % 10)

UsCall == Called("calculate_us_ratio_by_decade", "", 0, "")

(* C1: every operation leaves the caller's table as it was: the same       *)
(* columns, rows and values after the call as before it.                   *)
C1_TableReadOnly == [][table' = table]_vars

(* C2: the outcome of every call in a sequence of calls on one table is    *)
(* the outcome the same call has on a fresh copy of the table.             *)
C2_OutcomeAsOnFreshCopy ==
  call.op # "" => out = OutcomeOf(call, table0, sortTies)

(* C3: an operation called twice in a row with the same arguments on the   *)
(* same table has the same outcome both times.                             *)
C3_Idempotent == [][(call' = call /\ call.op # "") => out' = out]_vars

C3_Witness ==
  /\ call = UsCall
  /\ out.kind = "ok"
  /\ Len(out.ret) = 2
  /\ table # table0
  /\ OutcomeOf(call, table, sortTies) = out
  /\ CalculateUsRatioByDecadeTable(table) = table

TopStrings(t, col) ==
  {AsStr(t.rows[i][col], ColumnDtype(t.rows, col)) :
     i \in {j \in RowIdx(t) : ~IsNull(t.rows[j][col])}}

Freq(t, col, x) ==
  Cardinality({i \in RowIdx(t) :
                 /\ ~IsNull(t.rows[i][col])
                 /\ AsStr(t.rows[i][col], ColumnDtype(t.rows, col)) = x})

ModeSet(t, col) ==
  {x \in TopStrings(t, col) :
     \A y \in TopStrings(t, col) : Freq(t, col, y) <= Freq(t, col, x)}

(* C4: for an existing column get_max_value_and_plot returns exactly the   *)
(* string-coerced non-null values of maximum frequency, each once, and the *)
(* same list for every top_n.                                              *)
C4_AllTiedMaxima ==
  (call.op = "get_max_value_and_plot" /\ call.column \in table.cols) =>
    /\ out.kind = "ok"
    /\ Range(out.ret) = ModeSet(table, call.column)
    /\ Len(out.ret) = Cardinality(ModeSet(table, call.column))
    /\ \A n \in 1..MaxTopN :
         GetMaxValueAndPlotOut(table, call.column, n, sortTies).ret = out.ret

C4_Witness ==
  /\ call.op = "get_max_value_and_plot"
  /\ call.column = "laureate_id"
  /\ call.top_n = 1
  /\ Len(out.ret) = 2
  /\ Cardinality(TopStrings(table, "laureate_id")) = 3
  /\ \E i, j \in RowIdx(table) :
       table.rows[i]["laureate_id"] = I(1) /\ table.rows[j]["laureate_id"] = S("1")

SexRows(t) == {i \in RowIdx(t) : ~IsNull(t.rows[i]["sex"])}

CellOf(t, i) == <<DecadeOfYear(t.rows[i]["year"].n), t.rows[i]["category"]>>

Cells(t) == {CellOf(t, i) : i \in SexRows(t)}

CellSize(t, c) == Cardinality({i \in SexRows(t) : CellOf(t, i) = c})

CellFemales(t, c) ==
  Cardinality({i \in SexRows(t) : CellOf(t, i) = c /\ t.rows[i]["sex"] = S("Female")})

MaxCells(t) ==
  {c \in Cells(t) :
     \A d \in Cells(t) :
       CellFemales(t, d) * CellSize(t, c) <= CellFemales(t, c) * CellSize(t, d)}

(* C5: over the rows with a sex, get_max_female_decade_category returns    *)
(* one decade -> category pair, a cell of maximum female fraction, and of  *)
(* the cells tied at the maximum one of the largest decade.                *)
C5_MaxFemaleCell ==
  (call.op = "get_max_female_decade_category" /\ SexRows(table) # {}) =>
    /\ out.kind = "ok"
    /\ Len(out.ret) = 1
    /\ <<out.ret[1].decade, out.ret[1].category>> \in MaxCells(table)
    /\ \A c \in MaxCells(table) : c[1] <= out.ret[1].decade

C5_Witness ==
  /\ call.op = "get_max_female_decade_category"
  /\ out.kind = "ok"
  /\ MaxCells(table) # Cells(table)
  /\ \E c, d \in MaxCells(table) : c[1] # d[1]

DecadeRows(t, d) == {i \in RowIdx(t) : DecadeOfYear(t.rows[i]["year"].n) = d}

(* C6: calculate_us_ratio_by_decade returns one row per decade of the      *)
(* table with total_winners the number of distinct laureate_id, us_winners *)
(* the number of rows born in the United States of America, total_winners  *)
(* at least 1 and us_ratio their quotient (1 of 2 is exactly one half).    *)
C6_UsRatioByDecade ==
  call = UsCall =>
    /\ out.kind = "ok"
    /\ {out.ret[i].decade : i \in 1..Len(out.ret)}
         = {DecadeOfYear(table0.rows[j]["year"].n) : j \in RowIdx(table0)}
    /\ \A i, j \in 1..Len(out.ret) : out.ret[i].decade = out.ret[j].decade => i = j
    /\ \A i \in 1..Len(out.ret) :
         LET r == out.ret[i]
             g == DecadeRows(table0, r.decade)
         IN /\ r.total_winners = Cardinality({table0.rows[j]["laureate_id"] : j \in g})
            /\ r.us_winners =
                 Cardinality({j \in g : table0.rows[j]["birth_country"]
                                          = S("United States of America")})
            /\ r.total_winners >= 1
            /\ r.us_ratio[2] >= 1
            /\ r.us_ratio[1] * r.total_winners = r.us_winners * r.us_ratio[2]
            /\ (2 * r.us_winners = r.total_winners => r.us_ratio = <<1, 2>>)

C6_Witness ==
  /\ call = UsCall
  /\ Len(out.ret) = 2
  /\ \E i \in 1..Len(out.ret) :
       /\ out.ret[i].total_winners = 2
       /\ out.ret[i].us_winners = 1
       /\ out.ret[i].us_ratio = <<1, 2>>

FemaleIdx(t) == {i \in RowIdx(t) : t.rows[i]["sex"] = S("Female")}

Occurrences(t, nm) == Cardinality({i \in RowIdx(t) : t.rows[i]["full_name"] = nm})

RepeatedNames(t) ==
  {t.rows[i]["full_name"] : i \in {j \in RowIdx(t) :
      ~IsNull(t.rows[j]["full_name"]) /\ Occurrences(t, t.rows[j]["full_name"]) > 1}}

FirstAt(t, nm) ==
  CHOOSE i \in RowIdx(t) :
    t.rows[i]["full_name"] = nm /\ \A j \in 1..(i - 1) : t.rows[j]["full_name"] # nm

(* C8 (as amended): get_repeat_winners returns exactly one row for each    *)
(* non-null full_name that occurs more than once, with prize_count its     *)
(* number of occurrences, in non-increasing prize_count order; the order   *)
(* of names with equal prize_count is not fixed.                           *)
C8_RepeatWinnersRows ==
  call.op = "get_repeat_winners" =>
    /\ out.kind = "ok"
    /\ {out.ret[i].full_name : i \in 1..Len(out.ret)} = RepeatedNames(table)
    /\ Len(out.ret) = Cardinality(RepeatedNames(table))
    /\ \A i \in 1..Len(out.ret) :
         out.ret[i].prize_count = Occurrences(table, out.ret[i].full_name)
    /\ \A i, j \in 1..Len(out.ret) :
         i < j => out.ret[i].prize_count >= out.ret[j].prize_count

C8_Witness ==
  /\ call.op = "get_repeat_winners"
  /\ Len(out.ret) = 2
  /\ out.ret[1].prize_count = 3
  /\ out.ret[2].prize_count = 2
  /\ \E i \in RowIdx(table) : Occurrences(table, table.rows[i]["full_name"]) = 1

(* C8: the rows of get_repeat_winners are as above and names with equal    *)
(* prize_count are in the order of their first appearance in the table.    *)
C8_TiesInFirstAppearanceOrder ==
  call.op = "get_repeat_winners" =>
    /\ C8_RepeatWinnersRows
    /\ \A i, j \in 1..Len(out.ret) :
         (i < j /\ out.ret[i].prize_count = out.ret[j].prize_count) =>
           FirstAt(table, out.ret[i].full_name) < FirstAt(table, out.ret[j].full_name)

CheckedColumns(c) ==
  CASE c.op = "get_max_value_and_plot" -> {c.column}
    [] c.op = "calculate_us_ratio_by_decade" -> {"year", "birth_country", "laureate_id"}
    [] c.op = "get_first_female_laureate" -> {"sex", "year", "full_name", "category"}
    [] c.op = "plot_categories_of_female_laureates" -> {"sex", "category"}
    [] c.op = "get_repeat_winners" -> {"full_name"}
    [] OTHER -> {}

(* C9: a call of one of the five checking functions on a table that lacks  *)
(* a required column, and a call of get_first_female_laureate on a table   *)
(* without a female row, raises: nothing is returned, nothing is handed to *)
(* the renderer and the caller's table is unchanged.                       *)
C9_EagerErrors ==
  [][(\/ ~(CheckedColumns(call') \subseteq table.cols)
      \/ /\ call'.op = "get_first_female_laureate"
         /\ "sex" \in table.cols
         /\ FemaleIdx(table) = {})
     => (out'.kind = "error" /\ out'.ret = <<>> /\ out'.plot = <<>> /\ table' = table)]_vars

C9_Witness ==
  /\ call = UsCall
  /\ out.kind = "error"
  /\ Len(table.rows) = 1
  /\ table = table0

WithoutNull(t, col) ==
  IF col \in t.cols
  THEN [cols |-> t.cols, rows |-> SelectSeq(t.rows, LAMBDA r : r[col] # Null)]
  ELSE t

NullColumn(c) ==
  CASE c.op = "get_max_value_and_plot" -> c.column
    [] c.op = "get_repeat_winners" -> "full_name"
    [] c.op = "calculate_us_ratio_by_decade" -> "birth_country"
    [] OTHER -> "sex"

RowsStillPresent ==
  /\ Len(table'.rows) = Len(table.rows)
  /\ \A i \in RowIdx(table) : \A col \in table.cols :
       table'.rows[i][col] = table.rows[i][col]

UsWinnersIn(ret, d) ==
  IF \E j \in 1..Len(ret) : ret[j].decade = d
  THEN (ret[CHOOSE j \in 1..Len(ret) : ret[j].decade = d]).us_winners
  ELSE 0

(* C10: in every operation the rows with a null in the column it groups or *)
(* filters on (for calculate_us_ratio_by_decade: birth_country) contribute *)
(* to none of its results, and they are still rows of the table afterwards. *)
C10_NullRowsContributeNothing ==
  [][/\ out' = OutcomeOf(call', WithoutNull(table, NullColumn(call')), sortTies)
     /\ RowsStillPresent]_vars

(* C10 (as amended): as C10, except that calculate_us_ratio_by_decade      *)
(* drops no row: a row with a null birth_country is counted in no          *)
(* us_winners but is counted in the total_winners of its decade.           *)
C10_NullRowsLocal ==
  [][/\ call'.op # "calculate_us_ratio_by_decade" =>
          out' = OutcomeOf(call', WithoutNull(table, NullColumn(call')), sortTies)
     /\ (call'.op = "calculate_us_ratio_by_decade" /\ out'.kind = "ok") =>
          LET o == OutcomeOf(call', WithoutNull(table, "birth_country"), sortTies)
          IN \A i \in 1..Len(out'.ret) :
               /\ out'.ret[i].us_winners = UsWinnersIn(o.ret, out'.ret[i].decade)
               /\ out'.ret[i].total_winners =
                    Cardinality({table.rows[j]["laureate_id"] :
                                   j \in DecadeRows(table, out'.ret[i].decade)})
     /\ RowsStillPresent]_vars

C10_Witness ==
  /\ call = UsCall
  /\ out.kind = "ok"
  /\ \E i \in RowIdx(table), k \in 1..Len(out.ret) :
       /\ IsNull(table.rows[i]["birth_country"])
       /\ out.ret[k].decade = DecadeOfYear(table.rows[i]["year"].n)
       /\ out.ret[k].total_winners = 2
       /\ out.ret[k].us_winners = 1
====
